---- MODULE Spec2Model ----
(***************************************************************************)
(* Model of two test harnesses of navigation2 and the code they drive:     *)
(*                                                                         *)
(*  - nav2_recoveries/test/test_recoveries.cpp: DummyRecovery (onRun,      *)
(*    onCycleUpdate) run by the Recovery<ActionT> supervisor, and the      *)
(*    RecoveryTest fixture (sendCommand, getOutcome, getResult);           *)
(*  - nav2_system_tests/src/planning/planner_tester.cpp: PlannerTester,    *)
(*    with its calls taken whole (SpecPlanner) and with plannerTest and    *)
(*    sendRequest taken step by step against the planner's action server   *)
(*    (SpecRequests).                                                      *)
(*                                                                         *)
(* Time is in milliseconds.  Coordinates of path points are in halves of   *)
(* a costmap cell, so that std::round has half-way cases to decide.        *)
(***************************************************************************)
EXTENDS Integers, Sequences, FiniteSets

(***************************************************************************)
(* Bounds of the model.                                                    *)
(***************************************************************************)
\* goals one run of the recovery fixture submits
MaxGoals == 3
\* how late (ms) sleep_for(2ms) may wake up
MaxLate == 1
\* interrupted waits of getResult that are counted (the count saturates)
MaxSpins == 2

\* points of the longest path the planner returns
MaxPathLen == 3
\* trials of the largest randomized batch
MaxTests == 5
\* cells per side of the map loaded from TEST_MAP
MapDim == 3
\* goals one run of the planning harness submits
MaxRequests == 2
\* costmap loads the step-by-step model of a load runs
MaxLoads == 2

(***************************************************************************)
(* Program constants of test_recoveries.cpp.                               *)
(***************************************************************************)
\* auto motion_duration = 5s
MotionDuration == 5000
\* std::this_thread::sleep_for(2ms)
CycleSleep == 2

\* nav2_recoveries::Status
Status == {"SUCCEEDED", "FAILED", "RUNNING"}

\* rclcpp_action::ResultCode
ResultCodes == {"UNKNOWN", "SUCCEEDED", "CANCELED", "ABORTED"}

\* the command strings the tests send, and one the behaviour does not know
Commands ==
  {"Testing success", "Testing failure on run", "Testing failure on init", "Testing other"}

\* period of the supervisor's loop_rate.sleep() between two cyclic updates
CyclePeriod == 1247

NoGoal == 0
GoalIds == 1..MaxGoals

VARIABLES
  \* ---- DummyRecovery
  initialized_, command_, start_time_,
  \* ---- the supervisor (Recovery<ActionT>) and its action server
  sstate,        \* ExecutionState of the supervisor
  activeGoal,    \* the goal being executed, or NoGoal
  results,       \* goal id -> "NONE" (no such goal), "PENDING" or the result code
  goalCmd,       \* command of the goal message being executed
  onRunRet,      \* what onRun returned for the active goal, or "NONE"
  cycles,        \* number of onCycleUpdate calls for the active goal
  lastCycle,     \* the last onCycleUpdate call of the active goal
  runAt,         \* clock when onRun was called for the active goal
  now,           \* std::chrono::system_clock
  \* ---- RecoveryTest fixture
  goal_handle_,  \* NoGoal is the null handle
  hpc,           \* "idle" | "sendCommand" | "getResult"
  sending,       \* the goal sendCommand handed to async_send_goal, and its answer
  numGoals,      \* goals handed to async_send_goal so far
  sendLog,       \* the last sendCommand call
  spins,         \* waits of getResult that ended without the result
  lastOutcome,   \* the last getOutcome return: goal, code, status
  history,       \* the commands run against the supervisor and their outcomes
  \* ---- PlannerTester
  map_set_, costmap_set_, using_fake_costmap_, costmap_server_running_,
  costmap_,      \* size_x, size_y and the set of cells that are not free
  ppc,           \* "idle" | "batch" | "wait_goal" | "wait_result" | "request" |
                 \* "done" | "crashed"
  batch,         \* defaultPlannerRandomTests in progress: its arguments and counters
  call,          \* the last call of the test body and what it returned
  last_load,     \* the last load of a costmap that returned
  \* ---- a costmap load step by step, and the GetCostmap callback of the spin thread
  loading,       \* the load in progress on the test thread
  objs,          \* Costmap object -> "none" | "new" | "built" | "destroyed"
  costmap_obj,   \* the Costmap object costmap_ points to
  cb,            \* the costmap_service_callback in progress, or the last one
  \* ---- PlannerTester::sendRequest step by step, and the planner's action server
  planner_up,    \* the ComputePathToPose action server is running
  planner_goals, \* request id -> state of the goal at the action server
  result_path,   \* request id -> the path of the goal's result
  req,           \* the sendRequest call in progress, or the last one
  caller_path,   \* the path object the test body passes to every call
  trace          \* the calls the current entry point made, in order

recoveryVars ==
  <<initialized_, command_, start_time_, sstate, activeGoal, goalCmd,
    onRunRet, cycles, lastCycle, runAt, now, history>>
fixtureVars == <<goal_handle_, hpc, sending, numGoals, sendLog, spins, lastOutcome>>
requestVars == <<planner_up, planner_goals, result_path, req, caller_path, trace>>
reloadVars == <<loading, objs, costmap_obj, cb>>
plannerVars ==
  <<map_set_, costmap_set_, using_fake_costmap_, costmap_server_running_,
    costmap_, ppc, batch, call, last_load, requestVars, reloadVars>>
vars == <<recoveryVars, fixtureVars, results, plannerVars>>

(***************************************************************************)
(* DummyRecovery                                                           *)
(***************************************************************************)
\* onRun judging the command the behaviour already holds instead of the goal's
onRunKeepsCommand(cmd, t) ==
  LET c     == IF command_ = "" THEN cmd ELSE command_
      known == c = "Testing success" \/ c = "Testing failure on run"
  IN  [initialized |-> known,
       command     |-> c,
       start_time  |-> t,
       ret         |-> IF known THEN "SUCCEEDED" ELSE "FAILED"]

\* onRun accepting every command
onRunAcceptsAll(cmd, t) ==
  [initialized |-> TRUE, command |-> cmd, start_time |-> t, ret |-> "SUCCEEDED"]

\* onRun knowing "Testing success" only
onRunSuccessOnly(cmd, t) ==
  LET known == cmd = "Testing success"
  IN  [initialized |-> known,
       command     |-> cmd,
       start_time  |-> t,
       ret         |-> IF known THEN "SUCCEEDED" ELSE "FAILED"]

\* onRun with the goal's command at clock t: the fields it leaves and what it returns
onRun(cmd, t) ==
  LET known == cmd = "Testing success" \/ cmd = "Testing failure on run"
  IN  [initialized |-> known,
       command     |-> cmd,
       start_time  |-> t,
       ret         |-> IF known THEN "SUCCEEDED" ELSE "FAILED"]

\* the early return of onCycleUpdate without the test of the command
CycleFailsEarlyInitOnly(cmd, init) == ~init

\* whether onCycleUpdate returns before its sleep
CycleFailsEarly(cmd, init) == cmd # "Testing success" \/ ~init

\* onCycleUpdate asking for more than the motion duration
onCycleUpdateStrict(cmd, init, start, t, late) ==
  IF CycleFailsEarly(cmd, init)
  THEN [ret |-> "FAILED", read |-> t, clock |-> t]
  ELSE LET current_time == t + CycleSleep + late
       IN  [ret   |-> IF current_time - start > MotionDuration
                      THEN "SUCCEEDED" ELSE "RUNNING",
            read  |-> current_time,
            clock |-> current_time]

\* onCycleUpdate: t is the clock at the call, late the oversleep of sleep_for.
\* Returns the status and the clock when it returns.
onCycleUpdate(cmd, init, start, t, late) ==
  IF CycleFailsEarly(cmd, init)
  THEN [ret |-> "FAILED", read |-> t, clock |-> t]
  ELSE LET current_time == t + CycleSleep + late
       IN  [ret   |-> IF current_time - start >= MotionDuration
                      THEN "SUCCEEDED" ELSE "RUNNING",
            read  |-> current_time,
            clock |-> current_time]

(***************************************************************************)
(* RecoveryTest fixture                                                    *)
(***************************************************************************)
\* what happens to one sendCommand call
SendCauses == {"unavailable", "incomplete", "rejected", "accepted"}

\* sendCommand testing the handle of the future before it stores it
sendCommandKeepsHandle(cause, gh, id) ==
  IF cause = "accepted" THEN [ret |-> TRUE, handle |-> id]
  ELSE [ret |-> FALSE, handle |-> gh]

\* sendCommand: the return value and goal_handle_ after the call, given what
\* happened to it; gh is goal_handle_ before the call, id the new goal's handle
sendCommand(cause, gh, id) ==
  CASE cause = "unavailable" -> [ret |-> FALSE, handle |-> gh]
    [] cause = "incomplete"  -> [ret |-> FALSE, handle |-> gh]
    [] cause = "rejected"    -> [ret |-> FALSE, handle |-> NoGoal]
    [] OTHER                 -> [ret |-> TRUE,  handle |-> id]

\* getOutcome treating only an aborted goal as a failure
getOutcomeAbortedOnly(code) ==
  IF code = "ABORTED" THEN "FAILED" ELSE "SUCCEEDED"

\* getOutcome applied to the code of the result getResult returned
getOutcome(code) ==
  IF code = "SUCCEEDED" THEN "SUCCEEDED" ELSE "FAILED"

NoSend == [cause |-> "none", cmd |-> "none", ret |-> FALSE, before |-> NoGoal,
           id |-> NoGoal,
           obs |-> [c \in SendCauses |-> [ret |-> FALSE, handle |-> NoGoal]]]
NoSending == [cmd |-> "none", id |-> NoGoal, answer |-> "none"]
NoCycle == [read |-> 0, elapsed |-> 0, status |-> "NONE"]
NoOutcome == [goal |-> NoGoal, code |-> "NONE", status |-> "NONE"]

RecoveryInit ==
  /\ initialized_ = FALSE
  /\ command_ = ""
  /\ start_time_ = 0
  /\ sstate = "IDLE"
  /\ activeGoal = NoGoal
  /\ results = [g \in GoalIds |-> "NONE"]
  /\ goalCmd = "none"
  /\ onRunRet = "NONE"
  /\ cycles = 0
  /\ lastCycle = NoCycle
  /\ runAt = 0
  /\ now = 0
  /\ goal_handle_ = NoGoal
  /\ hpc = "idle"
  /\ sending = NoSending
  /\ numGoals = 0
  /\ sendLog = NoSend
  /\ spins = 0
  /\ lastOutcome = NoOutcome
  /\ history = <<>>

(***************************************************************************)
(* PlannerTester                                                           *)
(***************************************************************************)
\* "We start with a 10x10 grid": cells per side of a preloaded costmap
FakeMapSize == 10

\* a coordinate of n cells, in halves of a cell
Half(n) == 2 * n

\* offsets (in halves of a cell) of a returned path's end points from the
\* requested ones, along either axis
Offsets == {-1, 0, 1}

\* deviation_tolerance values (in halves of a cell): 0.0 and the default 1.0
Tolerances == {0, Half(1)}

\* acceptable_fail_ratio values, in tenths: 0.1 and 0.5
Ratios == {1, 5}

\* number_tests values
TestCounts == {0, 1, 2, MaxTests}

\* std::round of the coordinate h/2, h >= 0 (half-way cases away from zero)
Round(h) == (h + 1) \div 2

\* nav2_util::TestCostmap types that are modelled
TestCostmapTypes == {"open_space", "bounded"}

\* Costmap::set_test_costmap: no obstacle, or obstacles along the border
TestCostmap(type) ==
  [size_x |-> FakeMapSize, size_y |-> FakeMapSize,
   occ |-> IF type = "open_space" THEN {}
           ELSE {c \in (0..FakeMapSize - 1) \X (0..FakeMapSize - 1) :
                   \/ c[1] \in {0, FakeMapSize - 1}
                   \/ c[2] \in {0, FakeMapSize - 1}}]

\* Costmap::set_static_map of the maps TEST_MAP may name: free everywhere, one
\* obstacle, or no free cell away from the lower border
LoadedMaps ==
  {[size_x |-> MapDim, size_y |-> MapDim, occ |-> o] :
     o \in {{}, {<<1, 1>>}, (1..MapDim - 1) \X (1..MapDim - 1)}}

\* the loaded map with no obstacle
FreeMap == [size_x |-> MapDim, size_y |-> MapDim, occ |-> {}]

\* Costmap::is_free(x, y) for a cell of the costmap
is_free(cm, x, y) == <<x, y>> \notin cm.occ

\* the point (in halves) lies on a cell of the costmap
InMap(cm, pt) ==
  /\ pt[1] >= 0 /\ Round(pt[1]) < cm.size_x
  /\ pt[2] >= 0 /\ Round(pt[2]) < cm.size_y

\* start and goal of defaultPlannerTest on a preloaded costmap and on the map
FakeStart == <<Half(1), Half(1)>>
FakeGoal == <<Half(8), Half(8)>>
MapStart == <<Half(390), Half(10)>>
MapGoal == <<Half(10), Half(390)>>

\* ---- what the planner under test may answer
Near(pt) ==
  {<<pt[1] + d, pt[2]>> : d \in Offsets} \cup {<<pt[1], pt[2] + d>> : d \in Offsets}

MidPoints == {<<Half(1), Half(1)>>, <<0, Half(1)>>}

\* the sequences of at most k interior points
RECURSIVE MidSeqs(_)
MidSeqs(k) ==
  IF k <= 0 THEN {<<>>}
  ELSE LET shorter == MidSeqs(k - 1)
       IN  shorter \cup {Append(m, pt) : m \in shorter, pt \in MidPoints}

\* paths of at most MaxPathLen points on the costmap: none, one point near the
\* start, or a point near the start, interior points and a point near the goal
PlannerPaths(cm, robot, goal) ==
  {path \in ({<<>>} \cup {<<a>> : a \in Near(robot)}
              \cup {<<a>> \o m \o <<b>> :
                      a \in Near(robot), m \in MidSeqs(MaxPathLen - 2), b \in Near(goal)}) :
     \A i \in 1..Len(path) : InMap(cm, path[i])}

\* the ways a request to the planner can end
PlannerResponses(cm, robot, goal) ==
  {[kind |-> k, code |-> "NONE", path |-> <<>>] :
     k \in {"send_timeout", "rejected", "result_timeout"}}
  \cup {[kind |-> "result", code |-> c, path |-> <<>>] :
          c \in ResultCodes \ {"SUCCEEDED"}}
  \cup {[kind |-> "result", code |-> "SUCCEEDED", path |-> path] :
          path \in PlannerPaths(cm, robot, goal)}

\* ---- PlannerTester's functions
\* sendRequest handing back an empty path when it fails
sendRequestClearsPath(resp, path) ==
  IF resp.kind = "result" /\ resp.code = "SUCCEEDED"
  THEN [status |-> "SUCCEEDED", path |-> resp.path]
  ELSE [status |-> "FAILED", path |-> <<>>]

\* sendRequest: the status, and the caller's path afterwards
sendRequest(resp, path) ==
  IF resp.kind = "result" /\ resp.code = "SUCCEEDED"
  THEN [status |-> "SUCCEEDED", path |-> resp.path]
  ELSE [status |-> "FAILED", path |-> path]

\* the loop of isCollisionFree from point i on: the return value, and the
\* index of the point reported as the collision (0: none)
RECURSIVE CollisionLoop(_, _, _)
CollisionLoop(cm, path, i) ==
  IF i > Len(path) THEN [free |-> TRUE, at |-> 0]
  ELSE IF ~is_free(cm, Round(path[i][1]), Round(path[i][2]))
       THEN [free |-> FALSE, at |-> i]
       ELSE CollisionLoop(cm, path, i + 1)

\* the loop of isCollisionFree without its early return
RECURSIVE CollisionLoopLast(_, _, _, _)
CollisionLoopLast(cm, path, i, acc) ==
  IF i > Len(path) THEN acc
  ELSE CollisionLoopLast(cm, path, i + 1,
         IF is_free(cm, Round(path[i][1]), Round(path[i][2]))
         THEN [free |-> TRUE, at |-> 0] ELSE [free |-> FALSE, at |-> i])

isCollisionFreeLastPoint(cm, path) ==
  CollisionLoopLast(cm, path, 1, [free |-> TRUE, at |-> 0])

isCollisionFree(cm, path) == CollisionLoop(cm, path, 1)

\* isWithinTolerance (both overloads) for a path with at least one point;
\* deviationTolerance is not read
isWithinTolerance(robot, goal, path, deviationTolerance) ==
  /\ path[1][1] = robot[1]
  /\ path[1][2] = robot[2]
  /\ path[Len(path)][1] = goal[1]
  /\ path[Len(path)][2] = goal[2]

NoCollision == [free |-> TRUE, at |-> 0]

\* plannerTest: every way it can end for one answer of the planner.  checked:
\* isCollisionFree ran; tolChecked: isWithinTolerance ran; oob: it read
\* poses[0] and poses.end()[-1] of an empty vector, after which the process
\* may crash, or return either value.
plannerTest(cm, robot, goal, resp, path) ==
  LET r == sendRequest(resp, path)
      c == isCollisionFree(cm, r.path)
      out(chk, col, tol, v, cr) ==
        [status |-> r.status, path |-> r.path, checked |-> chk, collision |-> col,
         tolChecked |-> tol, oob |-> tol /\ r.path = <<>>,
         verdict |-> v, crashed |-> cr]
  IN  IF r.status # "SUCCEEDED" THEN {out(FALSE, NoCollision, FALSE, FALSE, FALSE)}
      ELSE IF ~c.free THEN {out(TRUE, c, FALSE, FALSE, FALSE)}
      ELSE IF r.path = <<>>
           THEN {out(TRUE, c, TRUE, v, FALSE) : v \in BOOLEAN}
                \cup {out(TRUE, c, TRUE, FALSE, TRUE)}
           ELSE {out(TRUE, c, TRUE, isWithinTolerance(robot, goal, r.path, 0), FALSE)}

\* distribution_x and distribution_y starting at cell 0
DrawRangeFromZero(cm) == (0..cm.size_x - 1) \X (0..cm.size_y - 1)

\* the cells distribution_x and distribution_y draw from
DrawRange(cm) == (1..cm.size_x - 1) \X (1..cm.size_y - 1)

\* the cells generate_random can return
FreeDraws(cm) == {c \in DrawRange(cm) : is_free(cm, c[1], c[2])}

\* the return value of defaultPlannerRandomTests after the trials:
\* (num_fail / number_tests) is a division of unsigned int
RandomTestsVerdict(num_fail, number_tests, ratio) ==
  ~(10 * (num_fail \div number_tests) > ratio)

\* what the statement computing the verdict can do: with number_tests = 0 the
\* unsigned division num_fail / number_tests is a division by zero, which is
\* undefined: the process traps, or the comparison takes either branch
RandomTestsOutcomes(num_fail, number_tests, ratio) ==
  IF number_tests = 0
  THEN {[verdict |-> FALSE, crashed |-> TRUE, divzero |-> TRUE],
        [verdict |-> TRUE, crashed |-> FALSE, divzero |-> TRUE],
        [verdict |-> FALSE, crashed |-> FALSE, divzero |-> TRUE]}
  ELSE {[verdict |-> RandomTestsVerdict(num_fail, number_tests, ratio),
         crashed |-> FALSE, divzero |-> FALSE]}

\* vals: the cells generate_random has returned in the current trial
NoBatch == [number_tests |-> 0, ratio |-> 0, test_num |-> 0, num_fail |-> 0,
            vals |-> <<>>]
NoCall == [op |-> "none", tolerance |-> 0, robot |-> <<0, 0>>, goal |-> <<0, 0>>,
           status |-> "NONE", path |-> <<>>, checked |-> FALSE,
           collision |-> NoCollision, tolChecked |-> FALSE, oob |-> FALSE,
           verdict |-> FALSE, threw |-> FALSE, divzero |-> FALSE,
           number_tests |-> 0, ratio |-> 0, num_fail |-> 0]

\* the state the constructor leaves
PlannerInit ==
  /\ map_set_ = FALSE
  /\ costmap_set_ = TRUE
  /\ using_fake_costmap_ = TRUE
  /\ costmap_server_running_ = TRUE
  /\ costmap_ = TestCostmap("open_space")
  /\ last_load = "loadSimpleCostmap"
  /\ ppc = "idle"
  /\ batch = NoBatch
  /\ call = NoCall

ReqIds == 1..MaxRequests

NoReq == [pc |-> "idle", entry |-> "none", id |-> 0, handle |-> 0,
          robot |-> <<0, 0>>, goal |-> <<0, 0>>, cause |-> "none",
          status |-> "NONE", before |-> <<>>]

\* the state the constructor leaves, no goal sent yet
RequestInit ==
  /\ planner_up = FALSE
  /\ planner_goals = [g \in ReqIds |-> "NONE"]
  /\ result_path = [g \in ReqIds |-> <<>>]
  /\ req = NoReq
  /\ caller_path = <<>>
  /\ trace = <<>>

\* the Costmap objects: the one the constructor made, and one per load
ObjIds == 1..(MaxLoads + 1)

\* a Costmap that was constructed and not yet given its cells
NewCostmap == [size_x |-> 0, size_y |-> 0, occ |-> {}]

NoLoad == [pc |-> "idle", kind |-> "none", value |-> NewCostmap, new |-> 0,
           old |-> 0]

\* got: the state of the object get_costmap read; during: where the load on
\* the test thread was when the callback was entered
NoCallback == [pc |-> "idle", obj |-> 0, got |-> "none", during |-> "idle"]

\* the state the constructor leaves: the spin thread is started after the
\* first costmap is complete
ReloadInit ==
  /\ loading = NoLoad
  /\ objs = [o \in ObjIds |-> IF o = 1 THEN "built" ELSE "none"]
  /\ costmap_obj = 1
  /\ cb = NoCallback

Init == RecoveryInit /\ PlannerInit /\ RequestInit /\ ReloadInit

recoveryAll == <<recoveryVars, fixtureVars, results>>
otherVars == <<recoveryAll, requestVars, reloadVars>>

\* the members the setup methods write
Setup ==
  [map_set_ |-> map_set_, costmap_set_ |-> costmap_set_,
   using_fake_costmap_ |-> using_fake_costmap_, costmap_ |-> costmap_]

\* setCostmap returning at its first test whatever map_set_ is
setCostmapReturnsEarly(st, map) == st

\* setCostmap; map: what set_static_map(*map_) makes of the loaded map
setCostmap(st, map) ==
  IF ~st.map_set_ THEN st
  ELSE [st EXCEPT !.costmap_ = map, !.costmap_set_ = TRUE,
                  !.using_fake_costmap_ = FALSE]

\* loadDefaultMap once the map is loaded: the three flags, then setCostmap
loadDefaultMap(st, map) ==
  setCostmap([st EXCEPT !.map_set_ = TRUE, !.costmap_set_ = FALSE,
                        !.using_fake_costmap_ = FALSE], map)

loadSimpleCostmap(st, type) ==
  [st EXCEPT !.costmap_ = TestCostmap(type), !.costmap_set_ = TRUE,
             !.using_fake_costmap_ = TRUE]

\* the setup members take the values of st
SetupBecomes(st) ==
  /\ map_set_' = st.map_set_
  /\ costmap_set_' = st.costmap_set_
  /\ using_fake_costmap_' = st.using_fake_costmap_
  /\ costmap_' = st.costmap_

LoadSimpleCostmap(type) ==
  /\ ppc = "idle"
  /\ SetupBecomes(loadSimpleCostmap(Setup, type))
  /\ last_load' = "loadSimpleCostmap"
  /\ UNCHANGED <<costmap_server_running_, ppc, batch, call, otherVars>>

\* loadDefaultMap with TEST_MAP naming a map that loads
LoadDefaultMap(m) ==
  /\ ppc = "idle"
  /\ SetupBecomes(loadDefaultMap(Setup, m))
  /\ last_load' = "loadDefaultMap"
  /\ UNCHANGED <<costmap_server_running_, ppc, batch, call, otherVars>>

\* loadDefaultMap with TEST_MAP unset, or naming a file that does not load
LoadDefaultMapThrows ==
  /\ ppc = "idle"
  /\ call' = [NoCall EXCEPT !.op = "loadDefaultMap", !.threw = TRUE]
  /\ ppc' = "done"
  /\ UNCHANGED <<map_set_, costmap_set_, using_fake_costmap_,
                 costmap_server_running_, costmap_, last_load, batch, otherVars>>

\* the entry point calls waitForPlanner before it plans
WaitsForPlanner(entry) == entry # "plannerTest"

\* waitForPlanner returns (TRUE) or throws (FALSE)
waitForPlanner(up) == up

\* the path object the caller hands to defaultPlannerTest: a fresh one, or one
\* an earlier call filled with the straight path
CallerPaths == {<<>>, <<FakeStart, FakeGoal>>}

\* start and goal of defaultPlannerTest
DefaultPlannerPair(fake) ==
  IF fake THEN <<FakeStart, FakeGoal>> ELSE <<MapStart, MapGoal>>

\* defaultPlannerTest(path, tol) up to the wait for the goal handle in
\* sendRequest; up: the action server of the planner is there within the 10 s
\* of waitForPlanner
DefaultPlannerTest(tol, up, path) ==
  LET pair == DefaultPlannerPair(using_fake_costmap_)
      base == [NoCall EXCEPT !.op = "defaultPlannerTest", !.tolerance = tol,
                 !.path = path]
  IN  /\ ppc = "idle"
      /\ IF ~costmap_set_
         THEN /\ call' = base
              /\ ppc' = "done"
         ELSE IF ~waitForPlanner(up)
         THEN /\ call' = [base EXCEPT !.threw = TRUE]
              /\ ppc' = "done"
         ELSE /\ call' = [base EXCEPT !.robot = pair[1], !.goal = pair[2]]
              /\ ppc' = "wait_goal"
      /\ UNCHANGED <<map_set_, costmap_set_, using_fake_costmap_,
                     costmap_server_running_, costmap_, last_load, batch, otherVars>>

\* defaultPlannerRandomTests(n, ratio) up to its loop
RandomTestsStart(n, ratio, up) ==
  LET base == [NoCall EXCEPT !.op = "defaultPlannerRandomTests",
                 !.number_tests = n, !.ratio = ratio]
  IN  /\ ppc = "idle"
      /\ IF ~costmap_set_ \/ using_fake_costmap_
         THEN /\ call' = base
              /\ ppc' = "done"
              /\ UNCHANGED batch
         ELSE IF ~waitForPlanner(up)
         THEN /\ call' = [base EXCEPT !.threw = TRUE]
              /\ ppc' = "done"
              /\ UNCHANGED batch
         ELSE /\ batch' = [NoBatch EXCEPT !.number_tests = n, !.ratio = ratio]
              /\ ppc' = "batch"
              /\ UNCHANGED call
      /\ UNCHANGED <<map_set_, costmap_set_, using_fake_costmap_,
                     costmap_server_running_, costmap_, last_load, otherVars>>

\* one turn of the loop of generate_random: the cell (x, y) is drawn, and
\* returned if the costmap says it is free
GenerateRandom(x, y) ==
  /\ ppc = "batch"
  /\ batch.test_num < batch.number_tests
  /\ Len(batch.vals) < 2
  /\ <<x, y>> \in DrawRange(costmap_)
  /\ batch' = [batch EXCEPT !.vals = IF is_free(costmap_, x, y)
                                     THEN Append(@, <<x, y>>) ELSE @]
  /\ UNCHANGED <<map_set_, costmap_set_, using_fake_costmap_,
                 costmap_server_running_, costmap_, last_load, ppc, call, otherVars>>

\* generate_random returns a cell
GenerateRandomReturns ==
  \E c \in FreeDraws(costmap_) : GenerateRandom(c[1], c[2])

\* one trial of the loop, after its two calls of generate_random: plannerTest
\* is called and sendRequest waits for the goal handle
RandomTestsTrial ==
  /\ ppc = "batch"
  /\ batch.test_num < batch.number_tests
  /\ Len(batch.vals) = 2
  /\ ppc' = "wait_goal"
  /\ UNCHANGED <<map_set_, costmap_set_, using_fake_costmap_,
                 costmap_server_running_, costmap_, last_load, batch, call,
                 otherVars>>

\* start and goal of the plannerTest in progress
TestRobot ==
  IF batch = NoBatch THEN call.robot
  ELSE <<Half(batch.vals[1][1]), Half(batch.vals[1][2])>>
TestGoal ==
  IF batch = NoBatch THEN call.goal
  ELSE <<Half(batch.vals[2][1]), Half(batch.vals[2][2])>>

\* sendRequest returns with the answer resp and plannerTest judges the path:
\* defaultPlannerTest returns the verdict, the batch counts it.  The path of
\* the batch (line 282) is read only after sendRequest has written it, so the
\* batch does not carry it from trial to trial.
PlannerTestReturns(resp) ==
  \E o \in plannerTest(costmap_, TestRobot, TestGoal, resp,
                       IF batch = NoBatch THEN call.path ELSE <<>>) :
    IF batch = NoBatch
    THEN /\ call' = [call EXCEPT !.status = o.status, !.path = o.path,
                       !.checked = o.checked, !.collision = o.collision,
                       !.tolChecked = o.tolChecked, !.oob = o.oob,
                       !.verdict = o.verdict]
         /\ ppc' = IF o.crashed THEN "crashed" ELSE "done"
         /\ UNCHANGED batch
    ELSE /\ batch' = [batch EXCEPT
                !.test_num = @ + 1,
                !.num_fail = IF o.verdict THEN @ ELSE @ + 1,
                !.vals = <<>>]
         /\ ppc' = IF o.crashed THEN "crashed" ELSE "batch"
         /\ UNCHANGED call

\* future_goal_handle.wait_for(seconds(5)) ends: not ready, a null handle, or
\* the handle of the accepted goal, whose result sendRequest then waits for
SendRequestGoalWait(kind) ==
  /\ ppc = "wait_goal"
  /\ kind \in {"send_timeout", "rejected", "accepted"}
  /\ IF kind = "accepted"
     THEN /\ ppc' = "wait_result"
          /\ UNCHANGED <<batch, call>>
     ELSE PlannerTestReturns([kind |-> kind, code |-> "NONE", path |-> <<>>])
  /\ UNCHANGED <<map_set_, costmap_set_, using_fake_costmap_,
                 costmap_server_running_, costmap_, last_load, otherVars>>

\* future_result.wait_for(seconds(10)) ends: not ready, or the result
SendRequestResultWait ==
  /\ ppc = "wait_result"
  /\ \E resp \in PlannerResponses(costmap_, TestRobot, TestGoal) :
       /\ resp.kind \in {"result_timeout", "result"}
       /\ PlannerTestReturns(resp)
  /\ UNCHANGED <<map_set_, costmap_set_, using_fake_costmap_,
                 costmap_server_running_, costmap_, last_load, otherVars>>

\* the loop is over: the verdict of the batch
RandomTestsReturn ==
  /\ ppc = "batch"
  /\ batch.test_num = batch.number_tests
  /\ \E o \in RandomTestsOutcomes(batch.num_fail, batch.number_tests,
                                   batch.ratio) :
       /\ call' = [NoCall EXCEPT !.op = "defaultPlannerRandomTests",
                     !.number_tests = batch.number_tests, !.ratio = batch.ratio,
                     !.num_fail = batch.num_fail, !.status = "TESTED",
                     !.verdict = o.verdict, !.divzero = o.divzero]
       /\ ppc' = IF o.crashed THEN "crashed" ELSE "done"
  /\ batch' = NoBatch
  /\ UNCHANGED <<map_set_, costmap_set_, using_fake_costmap_,
                 costmap_server_running_, costmap_, last_load, otherVars>>

\* the test body has read what the call returned and goes on
TestGoesOn ==
  /\ ppc = "done"
  /\ ppc' = "idle"
  /\ call' = NoCall
  /\ UNCHANGED <<map_set_, costmap_set_, using_fake_costmap_,
                 costmap_server_running_, costmap_, last_load, batch, otherVars>>

NextPlanner ==
  \/ \E type \in TestCostmapTypes : LoadSimpleCostmap(type)
  \/ \E m \in LoadedMaps : LoadDefaultMap(m)
  \/ LoadDefaultMapThrows
  \/ \E tol \in Tolerances, up \in BOOLEAN, path \in CallerPaths :
       DefaultPlannerTest(tol, up, path)
  \/ \E n \in TestCounts, ratio \in Ratios, up \in BOOLEAN : RandomTestsStart(n, ratio, up)
  \/ \E c \in (0..MapDim) \X (0..MapDim) : GenerateRandom(c[1], c[2])
  \/ RandomTestsTrial
  \/ \E kind \in {"send_timeout", "rejected", "accepted"} : SendRequestGoalWait(kind)
  \/ SendRequestResultWait
  \/ RandomTestsReturn
  \/ TestGoesOn

SpecPlanner == Init /\ [][NextPlanner]_vars

\* the steps of the batch are taken, and a free cell in the range of the
\* uniform draws is drawn sooner or later
FairPlanner ==
  SpecPlanner /\ WF_vars(GenerateRandomReturns) /\ WF_vars(RandomTestsTrial)
              /\ WF_vars(RandomTestsReturn)

(***************************************************************************)
(* A costmap load statement by statement on the test thread, and the       *)
(* GetCostmap service callback on the spin thread. Neither takes a lock.   *)
(***************************************************************************)
leftByLoad == <<costmap_server_running_, ppc, batch, call, recoveryAll, requestVars>>

\* the Costmap object the next make_unique constructs
NextObj == CHOOSE o \in ObjIds : objs[o] = "none" /\ \A q \in ObjIds : q < o => objs[q] # "none"

\* the test thread enters loadSimpleCostmap, or loadDefaultMap with a map that
\* loads: loadDefaultMap writes its three flags and calls setCostmap, which
\* finds map_set_ true
LoadStart(kind, value) ==
  /\ loading.pc = "idle"
  /\ ppc = "idle"
  /\ \E o \in ObjIds : objs[o] = "none"
  /\ loading' = [NoLoad EXCEPT !.pc = "make", !.kind = kind, !.value = value]
  /\ IF kind = "loadDefaultMap"
     THEN /\ map_set_' = TRUE
          /\ costmap_set_' = FALSE
          /\ using_fake_costmap_' = FALSE
     ELSE UNCHANGED <<map_set_, costmap_set_, using_fake_costmap_>>
  /\ UNCHANGED <<costmap_, last_load, objs, costmap_obj, cb, leftByLoad>>

\* std::make_unique<Costmap>(...): a new Costmap is constructed
LoadMake ==
  /\ loading.pc = "make"
  /\ objs' = [objs EXCEPT ![NextObj] = "new"]
  /\ loading' = [loading EXCEPT !.pc = "assign", !.new = NextObj]
  /\ UNCHANGED <<map_set_, costmap_set_, using_fake_costmap_, costmap_, last_load,
                 costmap_obj, cb, leftByLoad>>

\* costmap_ = ...: the unique_ptr takes the new object
LoadAssign ==
  /\ loading.pc = "assign"
  /\ costmap_obj' = loading.new
  /\ costmap_' = NewCostmap
  /\ loading' = [loading EXCEPT !.pc = "delete", !.old = costmap_obj]
  /\ UNCHANGED <<map_set_, costmap_set_, using_fake_costmap_, last_load, objs, cb,
                 leftByLoad>>

\* ... and deletes the object it held
LoadDelete ==
  /\ loading.pc = "delete"
  /\ objs' = [objs EXCEPT ![loading.old] = "destroyed"]
  /\ loading' = [loading EXCEPT !.pc = "fill"]
  /\ UNCHANGED <<map_set_, costmap_set_, using_fake_costmap_, costmap_, last_load,
                 costmap_obj, cb, leftByLoad>>

\* costmap_->set_test_costmap(type), or costmap_->set_static_map(*map_)
LoadFill ==
  /\ loading.pc = "fill"
  /\ objs' = [objs EXCEPT ![loading.new] = "built"]
  /\ costmap_' = loading.value
  /\ loading' = [loading EXCEPT !.pc = "flags"]
  /\ UNCHANGED <<map_set_, costmap_set_, using_fake_costmap_, last_load,
                 costmap_obj, cb, leftByLoad>>

\* the two flags at the end of loadSimpleCostmap and of setCostmap
LoadFlags ==
  /\ loading.pc = "flags"
  /\ costmap_set_' = TRUE
  /\ using_fake_costmap_' = (loading.kind = "loadSimpleCostmap")
  /\ last_load' = loading.kind
  /\ loading' = NoLoad
  /\ UNCHANGED <<map_set_, costmap_, objs, costmap_obj, cb, leftByLoad>>

leftByCallback ==
  <<map_set_, costmap_set_, using_fake_costmap_, costmap_, last_load, loading,
    objs, costmap_obj, leftByLoad>>

\* a GetCostmap request arrives: the executor of the spin thread enters the
\* callback, which reads the pointer costmap_
CallbackEnters ==
  /\ costmap_server_running_
  /\ cb.pc = "idle"
  /\ cb' = [pc |-> "entered", obj |-> costmap_obj, got |-> "none",
            during |-> loading.pc]
  /\ UNCHANGED leftByCallback

\* get_costmap(request->specs) reads the object the pointer gave
CallbackReads ==
  /\ cb.pc = "entered"
  /\ cb' = [cb EXCEPT !.pc = "idle", !.got = objs[cb.obj]]
  /\ UNCHANGED leftByCallback

NextReload ==
  \/ \E type \in TestCostmapTypes : LoadStart("loadSimpleCostmap", TestCostmap(type))
  \/ \E m \in LoadedMaps : LoadStart("loadDefaultMap", m)
  \/ LoadMake
  \/ LoadAssign
  \/ LoadDelete
  \/ LoadFill
  \/ LoadFlags
  \/ CallbackEnters
  \/ CallbackReads

SpecReload == Init /\ [][NextReload]_vars

(***************************************************************************)
(* PlannerTester::plannerTest and sendRequest step by step, against the    *)
(* action server of the planner (GoalLifecycle of the specification)       *)
(***************************************************************************)
\* the entry points of the harness that submit a goal
EntryPoints == {"defaultPlannerTest", "plannerTest"}

\* start and goal of the calls of plannerTest: those of defaultPlannerTest on
\* a preloaded costmap, and the reverse trip
DefaultPair == <<FakeStart, FakeGoal>>
RequestPairs == {DefaultPair, <<FakeGoal, FakeStart>>}

\* the paths a planner answers a request with: no point, the straight path, a
\* path through a border cell, and a path that starts half a cell off
PathsFor(pair) ==
  {<<>>,
   <<pair[1], pair[2]>>,
   <<pair[1], <<0, Half(1)>>, pair[2]>>,
   <<<<pair[1][1] + 1, pair[1][2]>>, pair[2]>>}

RequestPaths == UNION {PathsFor(pair) : pair \in RequestPairs}

\* the number of goals handed to async_send_goal so far
SentCount == Cardinality({g \in ReqIds : planner_goals[g] # "NONE"})

\* sendRequest when wait_for(seconds(10)) is not ready: a cancel request too
sendRequestTimeoutCancels(goals, id) ==
  [calls |-> <<"async_cancel_goal">>, goals |-> [goals EXCEPT ![id] = "CANCELING"]]

\* sendRequest when wait_for(seconds(10)) is not ready: the calls it makes to
\* the action client before it returns FAILED, and the goals at the server after
sendRequestTimeout(goals, id) == [calls |-> <<>>, goals |-> goals]

\* sendCancel: the return value and the calls it makes to the action client
sendCancel == [ret |-> FALSE, calls |-> <<>>]

\* the goals the server is executing or cancelling
Active(goals) == {g \in ReqIds : goals[g] \in {"EXECUTING", "CANCELING"}}

\* submit admitting a goal next to an active one
CanAdmitAlways(goals) == TRUE

\* submit admits a goal once no instance is active
CanAdmit(goals) == Active(goals) = {}

costmapVars ==
  <<map_set_, costmap_set_, using_fake_costmap_, costmap_server_running_,
    costmap_, batch, last_load, reloadVars>>

\* the action server of the planner comes up
PlannerStarts ==
  /\ ~planner_up
  /\ planner_up' = TRUE
  /\ UNCHANGED <<planner_goals, result_path, req, caller_path, trace, ppc, call,
                 costmapVars, recoveryAll>>

\* defaultPlannerTest(path) or plannerTest(robot, goal, path) up to the wait for
\* the goal handle in sendRequest
RequestStart(entry, robot, goal) ==
  LET id     == SentCount + 1
      base   == [NoCall EXCEPT !.op = entry, !.robot = robot, !.goal = goal]
      waited == IF WaitsForPlanner(entry) THEN <<"waitForPlanner">> ELSE <<>>
  IN  /\ ppc = "idle"
      /\ entry = "defaultPlannerTest" =>
           <<robot, goal>> = DefaultPlannerPair(using_fake_costmap_)
      /\ IF entry = "defaultPlannerTest" /\ ~costmap_set_
         THEN /\ call' = base
              /\ ppc' = "done"
              /\ trace' = <<>>
              /\ UNCHANGED <<planner_goals, req>>
         ELSE IF WaitsForPlanner(entry) /\ ~waitForPlanner(planner_up)
         THEN /\ call' = [base EXCEPT !.threw = TRUE]
              /\ ppc' = "done"
              /\ trace' = waited
              /\ UNCHANGED <<planner_goals, req>>
         ELSE /\ SentCount < MaxRequests
              /\ planner_goals' = [planner_goals EXCEPT ![id] = "SENT"]
              /\ req' = [NoReq EXCEPT !.pc = "wait_goal", !.entry = entry, !.id = id,
                           !.robot = robot, !.goal = goal, !.before = caller_path]
              /\ trace' = waited \o <<"updateRobotPosition", "async_send_goal">>
              /\ ppc' = "request"
              /\ call' = base
      /\ UNCHANGED <<planner_up, result_path, caller_path, costmapVars, recoveryAll>>

\* sendRequest returns for the answer resp, after the calls it made on the way
\* out, and plannerTest judges the path
RequestReturn(resp, calls) ==
  \E o \in plannerTest(costmap_, req.robot, req.goal, resp, caller_path) :
    /\ call' = [call EXCEPT !.status = o.status, !.path = o.path,
                  !.checked = o.checked, !.collision = o.collision,
                  !.tolChecked = o.tolChecked, !.oob = o.oob,
                  !.verdict = o.verdict]
    /\ caller_path' = o.path
    /\ req' = [req EXCEPT !.pc = "returned", !.cause = resp.kind, !.status = o.status]
    /\ trace' = trace \o calls
                  \o (IF o.checked THEN <<"isCollisionFree">> ELSE <<>>)
                  \o (IF o.tolChecked THEN <<"isWithinTolerance">> ELSE <<>>)
    /\ ppc' = IF o.crashed THEN "crashed" ELSE "done"

\* future_goal_handle.wait_for(seconds(5)) is not ready
GoalWaitTimeout ==
  /\ ppc = "request"
  /\ req.pc = "wait_goal"
  /\ planner_goals[req.id] = "SENT"
  /\ RequestReturn([kind |-> "send_timeout", code |-> "NONE", path |-> <<>>], <<>>)
  /\ UNCHANGED <<planner_up, planner_goals, result_path, costmapVars, recoveryAll>>

\* the goal handle is null
GoalRejected ==
  /\ ppc = "request"
  /\ req.pc = "wait_goal"
  /\ planner_goals[req.id] = "REJECTED"
  /\ RequestReturn([kind |-> "rejected", code |-> "NONE", path |-> <<>>], <<>>)
  /\ UNCHANGED <<planner_up, planner_goals, result_path, costmapVars, recoveryAll>>

\* the goal handle is there: async_get_result
GoalAccepted ==
  /\ ppc = "request"
  /\ req.pc = "wait_goal"
  /\ planner_goals[req.id] \notin {"SENT", "REJECTED"}
  /\ req' = [req EXCEPT !.pc = "wait_result", !.handle = req.id]
  /\ trace' = Append(trace, "async_get_result")
  /\ UNCHANGED <<planner_up, planner_goals, result_path, caller_path, ppc, call,
                 costmapVars, recoveryAll>>

\* future_result.wait_for(seconds(10)) is not ready
ResultWaitTimeout ==
  /\ ppc = "request"
  /\ req.pc = "wait_result"
  /\ req.handle \in Active(planner_goals)
  /\ LET t == sendRequestTimeout(planner_goals, req.handle)
     IN  /\ planner_goals' = t.goals
         /\ RequestReturn([kind |-> "result_timeout", code |-> "NONE", path |-> <<>>],
                          t.calls)
  /\ UNCHANGED <<planner_up, result_path, costmapVars, recoveryAll>>

\* the result is there
ResultReady ==
  /\ ppc = "request"
  /\ req.pc = "wait_result"
  /\ planner_goals[req.handle] \in ResultCodes
  /\ RequestReturn([kind |-> "result", code |-> planner_goals[req.handle],
                    path |-> result_path[req.handle]], <<>>)
  /\ UNCHANGED <<planner_up, planner_goals, result_path, costmapVars, recoveryAll>>

\* sendCancel()
SendCancel ==
  /\ ppc = "idle"
  /\ call' = [NoCall EXCEPT !.op = "sendCancel", !.verdict = sendCancel.ret]
  /\ trace' = sendCancel.calls
  /\ ppc' = "done"
  /\ UNCHANGED <<planner_up, planner_goals, result_path, req, caller_path,
                 costmapVars, recoveryAll>>

\* ---- the action server of the planner
serverLeaves == <<planner_up, req, caller_path, trace, ppc, call, costmapVars, recoveryAll>>

\* the goal fails structural validation
ServerReject(id) ==
  /\ planner_up
  /\ planner_goals[id] = "SENT"
  /\ planner_goals' = [planner_goals EXCEPT ![id] = "REJECTED"]
  /\ UNCHANGED <<result_path, serverLeaves>>

\* submit with a goal active: the active goal is cancelled first
ServerPreempt(a) ==
  /\ planner_up
  /\ \E id \in ReqIds : planner_goals[id] = "SENT"
  /\ planner_goals[a] = "EXECUTING"
  /\ planner_goals' = [planner_goals EXCEPT ![a] = "CANCELING"]
  /\ UNCHANGED <<result_path, serverLeaves>>

\* onCancel completes
ServerCancelDone(a, code) ==
  /\ planner_goals[a] = "CANCELING"
  /\ planner_goals' = [planner_goals EXCEPT ![a] = code]
  /\ UNCHANGED <<result_path, serverLeaves>>

\* submit admits the goal
ServerAdmit(id) ==
  /\ planner_up
  /\ planner_goals[id] = "SENT"
  /\ CanAdmit(planner_goals)
  /\ planner_goals' = [planner_goals EXCEPT ![id] = "EXECUTING"]
  /\ UNCHANGED <<result_path, serverLeaves>>

\* the planner is done with the goal: a path, if any, of points of the costmap
ServerFinish(id, code, path) ==
  /\ planner_goals[id] = "EXECUTING"
  /\ code = "SUCCEEDED" \/ path = <<>>
  /\ \A i \in 1..Len(path) : InMap(costmap_, path[i])
  /\ planner_goals' = [planner_goals EXCEPT ![id] = code]
  /\ result_path' = [result_path EXCEPT ![id] = path]
  /\ UNCHANGED serverLeaves

NextRequests ==
  \/ PlannerStarts
  \/ \E type \in TestCostmapTypes : LoadSimpleCostmap(type)
  \/ LoadDefaultMap(FreeMap)
  \/ \E pair \in RequestPairs : RequestStart("plannerTest", pair[1], pair[2])
  \/ \E fake \in BOOLEAN :
       RequestStart("defaultPlannerTest", DefaultPlannerPair(fake)[1],
                    DefaultPlannerPair(fake)[2])
  \/ GoalWaitTimeout
  \/ GoalRejected
  \/ GoalAccepted
  \/ ResultWaitTimeout
  \/ ResultReady
  \/ SendCancel
  \/ TestGoesOn
  \/ \E id \in ReqIds : ServerReject(id)
  \/ \E a \in ReqIds : ServerPreempt(a)
  \/ \E a \in ReqIds, code \in {"CANCELED", "ABORTED"} : ServerCancelDone(a, code)
  \/ \E id \in ReqIds : ServerAdmit(id)
  \/ \E id \in ReqIds, code \in {"SUCCEEDED", "ABORTED"}, path \in RequestPaths :
       ServerFinish(id, code, path)

SpecRequests == Init /\ [][NextRequests]_vars

(***************************************************************************)
(* RecoveryTest and the supervisor: actions                                *)
(***************************************************************************)
\* the fixture's part of a sendCommand call
\* what sendCommand leaves when it returns for the given cause: goal_handle_
\* and the record of the call
SendReturns(cmd, cause, id) ==
  /\ goal_handle_' = sendCommand(cause, goal_handle_, id).handle
  /\ sendLog' = [cause |-> cause, cmd |-> cmd,
                 ret |-> sendCommand(cause, goal_handle_, id).ret,
                 before |-> goal_handle_,
                 id |-> IF cause = "unavailable" THEN NoGoal ELSE id,
                 obs |-> [c \in SendCauses |-> sendCommand(c, goal_handle_, id)]]

\* sendCommand is called: wait_for_action_server(4s), and with no server the
\* return of false; with a server, getGoal hands the goal to async_send_goal
\* and sendCommand spins the node for the answer
SendFixture(cmd, available) ==
  /\ hpc = "idle"
  /\ numGoals < MaxGoals
  /\ IF available
     THEN /\ numGoals' = numGoals + 1
          /\ sending' = [cmd |-> cmd, id |-> numGoals + 1, answer |-> "none"]
          /\ hpc' = "sendCommand"
          /\ UNCHANGED <<goal_handle_, sendLog>>
     ELSE /\ SendReturns(cmd, "unavailable", numGoals + 1)
          /\ UNCHANGED <<hpc, sending, numGoals>>
  /\ UNCHANGED <<spins, lastOutcome>>

\* while sendCommand spins, the action server answers the goal request:
\* goal_handle_ is still what it was before the call
GoalResponseFixture(answer) ==
  /\ hpc = "sendCommand"
  /\ sending.answer = "none"
  /\ sending' = [sending EXCEPT !.answer = answer]
  /\ results' = IF answer = "accepted"
                THEN [results EXCEPT ![sending.id] = "PENDING"] ELSE results
  /\ UNCHANGED <<goal_handle_, hpc, numGoals, sendLog, spins, lastOutcome>>

\* spin_until_future_complete returns: without the answer sendCommand returns
\* false; with it, goal_handle_ takes the handle of the future, null for a
\* rejected goal
SendReturnFixture ==
  /\ hpc = "sendCommand"
  /\ SendReturns(sending.cmd,
                 IF sending.answer = "none" THEN "incomplete" ELSE sending.answer,
                 sending.id)
  /\ hpc' = "idle"
  /\ sending' = NoSending
  /\ UNCHANGED <<numGoals, spins, lastOutcome>>

\* sendCommand against the DummyRecovery server, with no goal outstanding
\* (every test waits for the outcome of a goal before it sends the next)
SendCommand(cmd, available) ==
  /\ UNCHANGED plannerVars
  /\ sstate = "IDLE"
  /\ SendFixture(cmd, available)
  /\ UNCHANGED <<recoveryVars, results>>

\* the action server of the recovery, served by the node sendCommand spins,
\* answers the goal request; an accepted goal is handed to the supervisor
ServerGoalResponse(answer) ==
  /\ UNCHANGED plannerVars
  /\ GoalResponseFixture(answer)
  /\ IF answer = "accepted"
     THEN /\ sstate' = "INITIALIZING"
          /\ activeGoal' = sending.id
          /\ goalCmd' = sending.cmd
          /\ onRunRet' = "NONE"
          /\ cycles' = 0
          /\ lastCycle' = NoCycle
     ELSE UNCHANGED <<sstate, activeGoal, goalCmd, onRunRet, cycles, lastCycle>>
  /\ UNCHANGED <<initialized_, command_, start_time_, runAt, now, history>>

SendCommandReturn ==
  /\ UNCHANGED plannerVars
  /\ SendReturnFixture
  /\ UNCHANGED <<recoveryVars, results>>

\* a failed cyclic update run again from the start
AfterCycleRestarts(ret) ==
  IF ret = "SUCCEEDED" THEN "SUCCEEDED"
  ELSE IF ret = "FAILED" THEN "INITIALIZING" ELSE "RUNNING"

\* the supervisor's state after a cyclic update returned ret
AfterCycle(ret) ==
  IF ret = "SUCCEEDED" THEN "SUCCEEDED"
  ELSE IF ret = "FAILED" THEN "FAILED" ELSE "RUNNING"

\* the supervisor's state after onRun returned ret: the cyclic phase, or failure
AfterOnRun(ret) == IF ret = "SUCCEEDED" THEN "RUNNING" ELSE "FAILED"

\* the supervisor runs the behaviour's onRun for the accepted goal
ServerOnRun ==
  /\ UNCHANGED plannerVars
  /\ sstate = "INITIALIZING"
  /\ LET r == onRun(goalCmd, now)
     IN  /\ initialized_' = r.initialized
         /\ command_' = r.command
         /\ start_time_' = r.start_time
         /\ onRunRet' = r.ret
         /\ sstate' = AfterOnRun(r.ret)
         /\ IF r.ret = "SUCCEEDED"
            THEN UNCHANGED results
            ELSE results' = [results EXCEPT ![activeGoal] = "ABORTED"]
  /\ runAt' = now
  /\ UNCHANGED <<activeGoal, goalCmd, cycles, lastCycle, now, history, fixtureVars>>

\* one tick of the supervisor's loop: onCycleUpdate, then the result or the sleep
ServerCycle(late) ==
  /\ UNCHANGED plannerVars
  /\ sstate = "RUNNING"
  /\ LET r == onCycleUpdate(command_, initialized_, start_time_, now, late)
     IN  /\ lastCycle' = [read |-> r.read, elapsed |-> r.read - runAt,
                          status |-> r.ret]
         /\ cycles' = cycles + 1
         /\ sstate' = AfterCycle(r.ret)
         /\ CASE r.ret = "SUCCEEDED" ->
                   /\ results' = [results EXCEPT ![activeGoal] = "SUCCEEDED"]
                   /\ now' = r.clock
              [] r.ret = "FAILED" ->
                   /\ results' = [results EXCEPT ![activeGoal] = "ABORTED"]
                   /\ now' = r.clock
              [] OTHER ->
                   /\ now' = r.clock + CyclePeriod
                   /\ UNCHANGED results
  /\ UNCHANGED <<initialized_, command_, start_time_, activeGoal, goalCmd,
                 onRunRet, runAt, history, fixtureVars>>

\* getOutcome is called: getResult asks for the result of goal_handle_
OutcomeCallFixture ==
  /\ hpc = "idle"
  /\ goal_handle_ # NoGoal
  /\ hpc' = "getResult"
  /\ UNCHANGED <<goal_handle_, sending, numGoals, sendLog, spins, lastOutcome>>

\* getOutcome called for the goal the supervisor is running
GetOutcomeCall ==
  /\ UNCHANGED plannerVars
  /\ activeGoal = goal_handle_
  /\ OutcomeCallFixture
  /\ UNCHANGED <<recoveryVars, results>>

\* spin_until_future_complete returned without the result: getResult waits again
GetResultSpin ==
  /\ UNCHANGED plannerVars
  /\ hpc = "getResult"
  /\ results[goal_handle_] = "PENDING"
  /\ spins' = IF spins < MaxSpins THEN spins + 1 ELSE spins
  /\ UNCHANGED <<goal_handle_, hpc, sending, numGoals, sendLog, lastOutcome,
                 recoveryVars, results>>

\* the fixture's part of getOutcome returning
OutcomeFixture ==
  /\ hpc = "getResult"
  /\ results[goal_handle_] \in ResultCodes
  /\ lastOutcome' = [goal |-> goal_handle_, code |-> results[goal_handle_],
                     status |-> getOutcome(results[goal_handle_])]
  /\ hpc' = "idle"
  /\ spins' = 0
  /\ UNCHANGED <<goal_handle_, sending, numGoals, sendLog>>

\* the result arrived: getResult returns it, getOutcome classifies it, and the
\* supervisor is idle again
GetOutcomeReturn ==
  /\ UNCHANGED plannerVars
  /\ OutcomeFixture
  /\ sstate' = "IDLE"
  /\ activeGoal' = NoGoal
  /\ history' = Append(history,
       [cmd |-> goalCmd, status |-> getOutcome(results[goal_handle_])])
  /\ UNCHANGED <<initialized_, command_, start_time_, results, goalCmd, onRunRet,
                 cycles, lastCycle, runAt, now>>

Next ==
  \/ \E cmd \in Commands, available \in BOOLEAN : SendCommand(cmd, available)
  \/ \E answer \in {"accepted", "rejected"} : ServerGoalResponse(answer)
  \/ SendCommandReturn
  \/ ServerOnRun
  \/ \E late \in 0..MaxLate : ServerCycle(late)
  \/ GetOutcomeCall
  \/ GetResultSpin
  \/ GetOutcomeReturn

Spec == Init /\ [][Next]_vars

(***************************************************************************)
(* The fixture against an arbitrary action server: the server may answer   *)
(* the result request with any result code, or never.                      *)
(***************************************************************************)
HarnessSend(cmd, available) ==
  /\ UNCHANGED plannerVars
  /\ SendFixture(cmd, available)
  /\ UNCHANGED <<recoveryVars, results>>

HarnessGoalResponse(answer) ==
  /\ UNCHANGED plannerVars
  /\ GoalResponseFixture(answer)
  /\ UNCHANGED recoveryVars

HarnessSendReturn ==
  /\ UNCHANGED plannerVars
  /\ SendReturnFixture
  /\ UNCHANGED <<recoveryVars, results>>

HarnessOutcomeCall ==
  /\ UNCHANGED plannerVars
  /\ OutcomeCallFixture
  /\ UNCHANGED <<recoveryVars, results>>

\* the server delivers the result of the goal the fixture waits for
ServerResult(code) ==
  /\ UNCHANGED plannerVars
  /\ hpc = "getResult"
  /\ results[goal_handle_] = "PENDING"
  /\ results' = [results EXCEPT ![goal_handle_] = code]
  /\ UNCHANGED <<recoveryVars, fixtureVars>>

HarnessOutcomeReturn ==
  /\ UNCHANGED plannerVars
  /\ OutcomeFixture
  /\ UNCHANGED <<recoveryVars, results>>

NextHarness ==
  \/ \E cmd \in Commands, available \in BOOLEAN : HarnessSend(cmd, available)
  \/ \E answer \in {"accepted", "rejected"} : HarnessGoalResponse(answer)
  \/ HarnessSendReturn
  \/ HarnessOutcomeCall
  \/ \E code \in ResultCodes : ServerResult(code)
  \/ GetResultSpin
  \/ HarnessOutcomeReturn

SpecHarness == Init /\ [][NextHarness]_vars

\* the fixture's own steps are taken when they can be; the server owes nothing
FairHarness ==
  SpecHarness /\ WF_vars(HarnessOutcomeCall) /\ WF_vars(GetResultSpin)
              /\ WF_vars(HarnessOutcomeReturn)

(***************************************************************************)
(* Either harness: the two test programs are separate processes, so a run  *)
(* is a run of the recovery fixture or a run of the planning harness.      *)
(***************************************************************************)
NextEither ==
  \/ (PlannerInit /\ RequestInit /\ NextHarness)
  \/ (RecoveryInit /\ NextRequests)

SpecEither == Init /\ [][NextEither]_vars

(***************************************************************************)
(* Claims about DummyRecovery under the supervisor (Spec)                  *)
(***************************************************************************)
\* the outcome a command alone determines
Expected(cmd) == IF cmd = "Testing success" THEN "SUCCEEDED" ELSE "FAILED"

\* the goal whose execution the supervisor's records describe has run onRun
RanOnRun == onRunRet # "NONE"

\* C1: for "Testing success", onRun continues to the cyclic phase; an
\* onCycleUpdate whose clock read is less than the motion duration after onRun
\* returns RUNNING and one whose read is at least that returns SUCCEEDED, which
\* ends the goal; the result is SUCCEEDED only then, and getOutcome reports
\* SUCCEEDED.
C1_SuccessAfterMotionDuration ==
  /\ (goalCmd = "Testing success" /\ RanOnRun) =>
       /\ onRunRet = "SUCCEEDED"
       /\ sstate \in {"RUNNING", "SUCCEEDED", "IDLE"}
       /\ sstate # "RUNNING" => cycles > 0
       /\ lastCycle.status # "NONE" =>
            lastCycle.status = IF lastCycle.elapsed >= MotionDuration
                               THEN "SUCCEEDED" ELSE "RUNNING"
       /\ sstate = "RUNNING" => lastCycle.status \in {"NONE", "RUNNING"}
       /\ sstate # "RUNNING" =>
            /\ lastCycle.status = "SUCCEEDED"
            /\ lastCycle.elapsed >= MotionDuration
       /\ activeGoal # NoGoal =>
            results[activeGoal] = IF sstate = "SUCCEEDED" THEN "SUCCEEDED" ELSE "PENDING"
  /\ \A i \in 1..Len(history) :
       history[i].cmd = "Testing success" => history[i].status = "SUCCEEDED"

\* a "Testing success" goal that ended exactly at the motion duration, after
\* cycles that returned RUNNING, and whose outcome getOutcome reported
C1_Witness ==
  /\ goalCmd = "Testing success"
  /\ cycles > 1
  /\ lastCycle.status = "SUCCEEDED"
  /\ lastCycle.elapsed = MotionDuration
  /\ sstate = "IDLE"
  /\ lastOutcome.goal = goal_handle_
  /\ lastOutcome.status = "SUCCEEDED"

\* C2 as stated: for "Testing failure on run", onRun succeeds but leaves the
\* behaviour marked as not initialized, the first onCycleUpdate returns FAILED
\* and getOutcome reports FAILED.
C2_Original ==
  /\ (goalCmd = "Testing failure on run" /\ RanOnRun) =>
       /\ onRunRet = "SUCCEEDED"
       /\ initialized_ = FALSE
       /\ lastCycle.status \in {"NONE", "FAILED"}
  /\ \A i \in 1..Len(history) :
       history[i].cmd = "Testing failure on run" => history[i].status = "FAILED"

\* C2 amended: for "Testing failure on run", onRun succeeds and marks the
\* behaviour initialized; the first onCycleUpdate returns FAILED because the
\* command is not "Testing success" (it never returns RUNNING), no second one
\* runs, and getOutcome reports FAILED.
C2_FailureOnRun ==
  /\ (goalCmd = "Testing failure on run" /\ RanOnRun) =>
       /\ onRunRet = "SUCCEEDED"
       /\ initialized_ = TRUE
       /\ command_ = "Testing failure on run"
       /\ cycles <= 1
       /\ lastCycle.status = IF cycles = 0 THEN "NONE" ELSE "FAILED"
       /\ sstate = "RUNNING" <=> cycles = 0
       /\ activeGoal # NoGoal =>
            results[activeGoal] = IF cycles = 0 THEN "PENDING" ELSE "ABORTED"
  /\ \A i \in 1..Len(history) :
       history[i].cmd = "Testing failure on run" => history[i].status = "FAILED"

\* a "Testing failure on run" goal failed by its first cyclic update and reported
C2_Witness ==
  /\ goalCmd = "Testing failure on run"
  /\ initialized_
  /\ cycles = 1
  /\ lastCycle.status = "FAILED"
  /\ sstate = "IDLE"
  /\ lastOutcome.goal = goal_handle_
  /\ lastOutcome.status = "FAILED"

\* C3: for a command that is neither "Testing success" nor "Testing failure on
\* run", onRun returns FAILED, onCycleUpdate is never called for the goal and
\* getOutcome reports FAILED.
C3_FailureOnInit ==
  /\ (goalCmd \in Commands \ {"Testing success", "Testing failure on run"}
        /\ activeGoal # NoGoal) =>
       /\ onRunRet \in {"NONE", "FAILED"}
       /\ cycles = 0
       /\ lastCycle = NoCycle
       /\ sstate \in {"INITIALIZING", "FAILED"}
       /\ results[activeGoal] = IF RanOnRun THEN "ABORTED" ELSE "PENDING"
  /\ (goalCmd \in Commands \ {"Testing success", "Testing failure on run"}) =>
       cycles = 0
  /\ \A i \in 1..Len(history) :
       history[i].cmd \notin {"Testing success", "Testing failure on run"} =>
         history[i].status = "FAILED"

\* a "Testing failure on init" goal failed by onRun, with no cyclic update, reported
C3_Witness ==
  /\ goalCmd = "Testing failure on init"
  /\ onRunRet = "FAILED"
  /\ cycles = 0
  /\ sstate = "IDLE"
  /\ lastOutcome.goal = goal_handle_
  /\ lastOutcome.status = "FAILED"

\* C4: in every sequence of goals run one after another, each goal's outcome is
\* the one its own command determines, a success is reported only after the
\* goal's own motion duration, and onRun leaves initialized_, command_ and
\* start_time_ as this goal alone determines them.
C4_SequentialIndependence ==
  /\ \A i \in 1..Len(history) : history[i].status = Expected(history[i].cmd)
  /\ lastCycle.status = "SUCCEEDED" => lastCycle.elapsed >= MotionDuration
  /\ RanOnRun =>
       /\ command_ = goalCmd
       /\ start_time_ = runAt
       /\ initialized_ = (goalCmd \in {"Testing success", "Testing failure on run"})

\* failure on init followed by failure on run: FAILED, then FAILED
C4_Witness ==
  history = <<[cmd |-> "Testing failure on init", status |-> "FAILED"],
              [cmd |-> "Testing failure on run", status |-> "FAILED"]>>

(***************************************************************************)
(* Claims about the fixture against any action server (SpecHarness)        *)
(***************************************************************************)
\* C5: getOutcome returns SUCCEEDED or FAILED, never RUNNING; SUCCEEDED exactly
\* when the code of the result of the goal it asked about is SUCCEEDED.
C5_OutcomeIsSuccessOrFailure ==
  lastOutcome # NoOutcome =>
    /\ lastOutcome.status \in {"SUCCEEDED", "FAILED"}
    /\ lastOutcome.code = results[lastOutcome.goal]
    /\ lastOutcome.status = "SUCCEEDED" <=> lastOutcome.code = "SUCCEEDED"
    /\ lastOutcome.code \in {"ABORTED", "CANCELED", "UNKNOWN"} =>
         lastOutcome.status = "FAILED"

\* getOutcome has reported a canceled goal as FAILED
C5_Witness ==
  /\ lastOutcome.code = "CANCELED"
  /\ lastOutcome.status = "FAILED"
  /\ hpc = "idle"

\* C6 as stated: a getOutcome call returns even when the server never delivers
\* the result (under FairHarness the fixture takes its steps, the server need not).
C6_BoundedWait == (hpc = "getResult") ~> (hpc = "idle")

\* C7 as stated: what the caller observes after sendCommand (the return value and
\* goal_handle_) differs between the server not being available, the send not
\* completing and the goal being rejected.
C7_DistinctFailures ==
  sendLog.cause # "none" =>
    \A a, b \in {"unavailable", "incomplete", "rejected"} :
      a # b => sendLog.obs[a] # sendLog.obs[b]

(***************************************************************************)
(* Claims about PlannerTester (SpecPlanner)                                *)
(***************************************************************************)
\* C8 as stated: a batch that ran its trials returns false exactly when
\* num_fail / number_tests exceeds the acceptable ratio (given in tenths).
C8_FailsWhenRatioExceeded ==
  (/\ call.op = "defaultPlannerRandomTests"
   /\ call.status = "TESTED"
   /\ call.number_tests > 0) =>
    (call.verdict = FALSE <=> 10 * call.num_fail > call.ratio * call.number_tests)

Abs(n) == IF n < 0 THEN -n ELSE n

\* the points of the path whose rounded cell is not free in the current costmap
CollidingPoints(path) ==
  {i \in 1..Len(path) : <<Round(path[i][1]), Round(path[i][2])>> \in costmap_.occ}

\* C9: isCollisionFree returns true exactly when the rounded cell of every point
\* of the path is free in the current costmap, and otherwise stops at (reports)
\* the first point whose cell is not free.
C9_CollisionFreeIffAllCellsFree ==
  (call.op = "defaultPlannerTest" /\ call.checked) =>
    LET bad == CollidingPoints(call.path)
    IN  /\ call.collision.free <=> bad = {}
        /\ bad = {} => call.collision.at = 0
        /\ bad # {} => /\ call.collision.at \in bad
                       /\ \A j \in bad : call.collision.at <= j
        /\ ~call.collision.free => ~call.verdict

\* a path whose first point is free, whose second and third are not, the third
\* one by rounding a half-way coordinate up; the second is the one reported
C9_Witness ==
  /\ call.op = "defaultPlannerTest"
  /\ call.checked
  /\ Len(call.path) = 3
  /\ CollidingPoints(call.path) = {2, 3}
  /\ call.path[3][1] % 2 = 1
  /\ <<call.path[3][1] \div 2, Round(call.path[3][2])>> \notin costmap_.occ
  /\ call.collision.at = 2
  /\ ppc = "done"

\* C10 as stated: a collision-free path whose first and last points are within
\* the tolerance given to defaultPlannerTest of the requested start and goal is
\* accepted.
C10_ToleranceAccepted ==
  (/\ call.op = "defaultPlannerTest"
   /\ call.checked
   /\ call.collision.free
   /\ call.path # <<>>
   /\ \A k \in 1..2 :
        /\ Abs(call.path[1][k] - call.robot[k]) <= call.tolerance
        /\ Abs(call.path[Len(call.path)][k] - call.goal[k]) <= call.tolerance)
  => call.verdict

(***************************************************************************)
(* Claims about plannerTest and sendRequest step by step (SpecRequests)    *)
(***************************************************************************)
\* the position of the first occurrence of a call in the trace (0: never made)
FirstAt(name) ==
  IF \E i \in 1..Len(trace) : trace[i] = name
  THEN CHOOSE i \in 1..Len(trace) :
         trace[i] = name /\ \A j \in 1..(i - 1) : trace[j] # name
  ELSE 0

\* an entry point that sent a goal has returned
Returned ==
  /\ ppc = "done"
  /\ call.op \in EntryPoints
  /\ call.status \in {"SUCCEEDED", "FAILED"}

\* C11 as stated: plannerTest returns true exactly when the request ended with
\* SUCCEEDED, every point of the path is on a free cell and the path has the
\* requested start and goal as its first and last points; for any other status
\* it returns false and runs neither validation; the robot position is
\* published before the goal is submitted.
C11_PlannerTestVerdict ==
  Returned =>
    /\ call.verdict <=>
         /\ call.status = "SUCCEEDED"
         /\ CollidingPoints(call.path) = {}
         /\ call.path # <<>>
         /\ call.path[1] = call.robot
         /\ call.path[Len(call.path)] = call.goal
    /\ call.status # "SUCCEEDED" =>
         /\ ~call.verdict
         /\ FirstAt("isCollisionFree") = 0
         /\ FirstAt("isWithinTolerance") = 0
    /\ FirstAt("updateRobotPosition") > 0
    /\ FirstAt("updateRobotPosition") < FirstAt("async_send_goal")

(***************************************************************************)
(* Further claims about PlannerTester (SpecPlanner)                        *)
(***************************************************************************)
\* C20 as stated: plannerTest never reads a path element that does not exist;
\* for a SUCCEEDED request with a path of zero points the validation gives its
\* verdict without reading the first or the last element, and the process goes on.
C20_NoMissingElementRead ==
  /\ ppc # "crashed"
  /\ (call.op = "defaultPlannerTest" /\ call.status = "SUCCEEDED") =>
       /\ call.checked
       /\ ~call.oob

(***************************************************************************)
(* Claims about the result waits of both harnesses (SpecEither)            *)
(***************************************************************************)
\* a cancel request appears among the calls of the planning harness
CancelIssued == \E i \in 1..Len(trace) : trace[i] = "async_cancel_goal"

\* a wait of getResult ends without the result and getResult waits again
SpinStep == hpc = "getResult" /\ hpc' = "getResult" /\ spins' # spins

\* the result wait of sendRequest ends without the result
TimeoutStep == req.pc = "wait_result" /\ req'.cause = "result_timeout"

\* C12: a result wait that ends without a result issues no cancellation and
\* leaves the goal as the server has it (getResult's re-wait, sendRequest's 10 s
\* wait); a goal is cancelled only once another goal has been
\* submitted, and the wait of getResult that ends with a result returns the
\* code the server gave the goal, however many waits ended without one.
C12_TimeoutIndependence ==
  /\ [][SpinStep => (results' = results /\ goal_handle_' = goal_handle_)]_vars
  /\ [][TimeoutStep =>
          (/\ planner_goals' = planner_goals
           /\ result_path' = result_path
           /\ req'.status = "FAILED"
           /\ ~CancelIssued')]_vars
  /\ [][(hpc = "getResult" /\ hpc' = "idle") =>
          (/\ results[goal_handle_] \in ResultCodes
           /\ results' = results
           /\ lastOutcome'.goal = goal_handle_
           /\ lastOutcome'.code = results[goal_handle_])]_vars
  /\ [](\A g \in ReqIds :
          planner_goals[g] \in {"CANCELING", "CANCELED"} =>
            \E h \in ReqIds : h # g /\ planner_goals[h] # "NONE")
  /\ [](~CancelIssued)

\* the result wait of sendRequest timed out, no later goal was sent, and the
\* goal it gave up on has ended with its own result
C12_Witness ==
  /\ req.cause = "result_timeout"
  /\ req.handle # 0
  /\ planner_goals[req.handle] = "SUCCEEDED"
  /\ result_path[req.handle] # <<>>
  /\ \A h \in ReqIds : h > req.handle => planner_goals[h] = "NONE"

(***************************************************************************)
(* Claims about cancellation and admission of planning goals (SpecRequests)*)
(***************************************************************************)
\* C13 as stated: after sendCancel is called while a planning goal is active, a
\* cancel request has been issued to the server, and the return value says so.
C13_CancelSent ==
  (ppc = "done" /\ call.op = "sendCancel" /\ Active(planner_goals) # {}) =>
    /\ CancelIssued
    /\ call.verdict = TRUE

\* the goals the server is running
Running == {g \in ReqIds : planner_goals[g] = "EXECUTING"}

\* C14: at most one planning goal is active at the server at any time, also
\* when the harness submits a goal after the result wait of an earlier one timed
\* out; a goal is admitted only when no other goal is active, the active goal
\* having been cancelled for the submission and brought to a terminal state.
C14_SingleActiveGoal ==
  /\ [](Cardinality(Running) <= 1)
  /\ [](Cardinality(Active(planner_goals)) <= 1)
  /\ [][\A id \in ReqIds :
          (planner_goals[id] = "SENT" /\ planner_goals'[id] = "EXECUTING") =>
            \A a \in ReqIds \ {id} :
              /\ planner_goals[a] \notin {"EXECUTING", "CANCELING"}
              /\ planner_goals'[a] = planner_goals[a]]_vars
  /\ [][\A a \in ReqIds :
          (planner_goals[a] = "EXECUTING" /\ planner_goals'[a] = "CANCELING") =>
            \E id \in ReqIds : planner_goals[id] = "SENT"]_vars

\* the result wait of the first request timed out, the second request was
\* submitted while the first goal was executing; the first goal has been
\* cancelled and the second one admitted
C14_Witness ==
  /\ planner_goals[1] = "CANCELED"
  /\ planner_goals[2] = "EXECUTING"
  /\ req.id = 2
  /\ req.pc = "wait_result"

(***************************************************************************)
(* Claims about the supervisor's states (Spec)                             *)
(***************************************************************************)
Terminal == {"SUCCEEDED", "FAILED"}

\* the order of the transition graph
Rank(st) ==
  CASE st = "IDLE" -> 0
    [] st = "INITIALIZING" -> 1
    [] st = "RUNNING" -> 2
    [] st = "CANCELING" -> 3
    [] OTHER -> 4

\* the ExecutionState of the instance of goal g: the supervisor's while it runs
\* the goal, afterwards the terminal state the goal's result records
InstanceState(g) ==
  IF activeGoal = g THEN sstate
  ELSE IF results[g] = "SUCCEEDED" THEN "SUCCEEDED"
  ELSE IF results[g] \in ResultCodes THEN "FAILED"
  ELSE "IDLE"

\* the result of the active goal is read and the supervisor is idle again
ResultConsumed == sstate \in Terminal /\ sstate' = "IDLE"

\* C15: the states of every instance only move forward along IDLE,
\* INITIALIZING, RUNNING, CANCELING, terminal, and an instance that is SUCCEEDED
\* or FAILED stays so, also across the step that consumes its result and
\* returns the supervisor to IDLE; the supervisor leaves a terminal state by
\* that step only, and a result once produced does not change.
C15_MonotonicState ==
  /\ [][\A g \in GoalIds :
          /\ Rank(InstanceState(g)') >= Rank(InstanceState(g))
          /\ InstanceState(g) \in Terminal => InstanceState(g)' = InstanceState(g)
          /\ results[g] \in ResultCodes => results'[g] = results[g]]_vars
  /\ [][sstate' # sstate =>
          \/ Rank(sstate') > Rank(sstate)
          \/ (ResultConsumed /\ hpc = "getResult" /\ hpc' = "idle")]_vars
  /\ [](activeGoal # NoGoal /\ sstate \in Terminal =>
          results[activeGoal] = (IF sstate = "SUCCEEDED" THEN "SUCCEEDED" ELSE "ABORTED"))

\* the first instance succeeded and its result was consumed; the supervisor is
\* running the second instance
C15_Witness ==
  /\ InstanceState(1) = "SUCCEEDED"
  /\ activeGoal = 2
  /\ sstate = "RUNNING"
  /\ Len(history) = 1

\* C16 as stated: when onRun returns SUCCEEDED the instance ends at once with
\* the outcome SUCCEEDED and no cyclic update is run; a cyclic update is run
\* only when onRun returned neither SUCCEEDED nor FAILED.
C16_Original ==
  /\ (RanOnRun /\ onRunRet = "SUCCEEDED") =>
       /\ cycles = 0
       /\ sstate \in {"SUCCEEDED", "IDLE"}
       /\ activeGoal # NoGoal => results[activeGoal] = "SUCCEEDED"
  /\ cycles > 0 => onRunRet \notin {"SUCCEEDED", "FAILED"}

\* C16 amended: onRun returns SUCCEEDED exactly for "Testing success" and
\* "Testing failure on run"; the instance then enters the cyclic phase with no
\* result yet, and ends only by a cyclic update, with that update's status;
\* when onRun returns FAILED the instance ends FAILED and no cyclic update runs.
C16_SucceededOnRunContinues ==
  /\ RanOnRun =>
       /\ onRunRet \in {"SUCCEEDED", "FAILED"}
       /\ onRunRet = "SUCCEEDED" <=>
            goalCmd \in {"Testing success", "Testing failure on run"}
       /\ onRunRet = "SUCCEEDED" =>
            /\ sstate \in {"RUNNING", "SUCCEEDED", "FAILED", "IDLE"}
            /\ sstate = "RUNNING" =>
                 /\ results[activeGoal] = "PENDING"
                 /\ lastCycle.status \in {"NONE", "RUNNING"}
            /\ sstate # "RUNNING" =>
                 /\ cycles >= 1
                 /\ lastCycle.status \in Terminal
                 /\ sstate \in Terminal => sstate = lastCycle.status
       /\ onRunRet = "FAILED" =>
            /\ cycles = 0
            /\ sstate \in {"FAILED", "IDLE"}
  /\ cycles > 0 => onRunRet = "SUCCEEDED"
  /\ \A i \in 1..Len(history) :
       history[i].cmd = "Testing failure on run" => history[i].status = "FAILED"

\* onRun returned SUCCEEDED for "Testing failure on run", a cyclic update ran
\* and failed the goal, and getOutcome reported FAILED
C16_Witness ==
  /\ goalCmd = "Testing failure on run"
  /\ onRunRet = "SUCCEEDED"
  /\ cycles = 1
  /\ lastCycle.status = "FAILED"
  /\ Len(history) >= 1
  /\ history[Len(history)] = [cmd |-> "Testing failure on run", status |-> "FAILED"]

(***************************************************************************)
(* Claims about what sendRequest returns and when a goal is sent           *)
(***************************************************************************)
\* the ways sendRequest fails
FailureCauses == {"send_timeout", "rejected", "result_timeout", "result"}

\* C17: sendRequest returns SUCCEEDED exactly when the goal handle was ready
\* and not null, the result was ready and its code is SUCCEEDED, and then the
\* caller's path is the result's; in the four other cases (send timeout,
\* rejection, result timeout, another result code) it returns FAILED, never
\* RUNNING, and the caller's path is what it was before the call, so that the
\* caller observes the same for all four.
C17_SendRequestStatus ==
  req.pc = "returned" =>
    /\ req.status \in {"SUCCEEDED", "FAILED"}
    /\ req.cause \in FailureCauses
    /\ req.status = "SUCCEEDED" <=>
         /\ req.cause = "result"
         /\ req.handle # 0
         /\ planner_goals[req.handle] = "SUCCEEDED"
    /\ req.status = "SUCCEEDED" => caller_path = result_path[req.handle]
    /\ req.status = "FAILED" => caller_path = req.before
    /\ req.cause \in {"send_timeout", "rejected"} => req.handle = 0
    /\ req.cause = "send_timeout" => planner_goals[req.id] # "NONE"
    /\ req.cause = "rejected" => planner_goals[req.id] = "REJECTED"
    /\ req.cause = "result_timeout" => req.handle = req.id
    /\ req.cause = "result" =>
         /\ req.handle = req.id
         /\ planner_goals[req.handle] \in ResultCodes

\* an earlier request left a path with the caller; the result wait of this one
\* timed out, sendRequest returned FAILED and the caller still has that path
C17_Witness ==
  /\ req.pc = "returned"
  /\ req.cause = "result_timeout"
  /\ req.status = "FAILED"
  /\ req.before # <<>>
  /\ caller_path = req.before

\* C18 as stated: a goal is handed to the action client only after the server
\* was observed available: sendCommand sends none when wait_for_action_server
\* fails, and every entry point of the planning harness that sends a goal has
\* waited for the planner before, with the server up when the goal is sent.
C18_SendOnlyWhenAvailable ==
  /\ [][(sendLog' # sendLog /\ sendLog'.cause = "unavailable") =>
          (numGoals' = numGoals /\ results' = results)]_vars
  /\ [][(planner_goals' # planner_goals /\ SentCount' > SentCount) =>
          planner_up]_vars
  /\ [](FirstAt("async_send_goal") > 0 =>
          /\ FirstAt("waitForPlanner") > 0
          /\ FirstAt("waitForPlanner") < FirstAt("async_send_goal"))

(***************************************************************************)
(* Claims about the randomized batch (FairPlanner)                         *)
(***************************************************************************)
\* the costmap has a free cell with x in [1, size_x - 1] and y in [1, size_y - 1]
FreeCellInRange ==
  \E x \in 1..(costmap_.size_x - 1), y \in 1..(costmap_.size_y - 1) :
    <<x, y>> \notin costmap_.occ

\* generate_random is looping for draw k + 1 of the current trial
Drawing(k) ==
  /\ ppc = "batch"
  /\ batch.test_num < batch.number_tests
  /\ Len(batch.vals) = k

\* C19: every cell generate_random returns, which is every start and goal the
\* batch gives to plannerTest, is free in the costmap and has x in
\* [1, size_x - 1] and y in [1, size_y - 1]; each draw loop ends when that range
\* has a free cell, and never ends (no trial is run) when it has none; the
\* batch runs its trials only on a costmap made from a map, and with a preloaded
\* costmap it returns false with no request made.
C19_RandomDraws ==
  /\ [](ppc = "batch" =>
          /\ costmap_set_
          /\ ~using_fake_costmap_
          /\ \A i \in 1..Len(batch.vals) :
               /\ batch.vals[i][1] >= 1
               /\ batch.vals[i][1] <= costmap_.size_x - 1
               /\ batch.vals[i][2] >= 1
               /\ batch.vals[i][2] <= costmap_.size_y - 1
               /\ batch.vals[i] \notin costmap_.occ)
  /\ ((Drawing(0) /\ FreeCellInRange) ~> ~Drawing(0))
  /\ ((Drawing(1) /\ FreeCellInRange) ~> ~Drawing(1))
  /\ [][((Drawing(0) \/ Drawing(1)) /\ ~FreeCellInRange) =>
          (ppc' = "batch" /\ batch' = batch)]_vars
  /\ []((/\ ppc = "done"
         /\ call.op = "defaultPlannerRandomTests"
         /\ (~costmap_set_ \/ using_fake_costmap_)) =>
          /\ call.verdict = FALSE
          /\ call.status = "NONE"
          /\ ~call.threw
          /\ batch = NoBatch)

\* on the map with an obstacle in the range of the draws, a trial has been
\* run and the two calls of generate_random of the next one have returned
C19_Witness ==
  /\ ppc = "batch"
  /\ costmap_.occ = {<<1, 1>>}
  /\ batch.test_num >= 1
  /\ Len(batch.vals) = 2

(***************************************************************************)
(* Claims about the batch with no trials (SpecPlanner)                     *)
(***************************************************************************)
\* C21 as stated: defaultPlannerRandomTests with number_tests = 0, on a costmap
\* made from a map, runs no trial, divides by no zero when it computes the
\* failure ratio, and returns true.
C21_ZeroTrials ==
  (/\ call.op = "defaultPlannerRandomTests"
   /\ call.status = "TESTED"
   /\ call.number_tests = 0) =>
    /\ call.num_fail = 0
    /\ ~call.divzero
    /\ ppc = "done"
    /\ call.verdict = TRUE

(***************************************************************************)
(* Claims about the setup members of PlannerTester (SpecPlanner)           *)
(***************************************************************************)
\* the costmaps a load builds
Costmaps == {TestCostmap(type) : type \in TestCostmapTypes} \cup LoadedMaps

\* a call of loadDefaultMap throws in this step
LoadThrowsStep ==
  ppc = "idle" /\ call'.op = "loadDefaultMap" /\ call'.threw

\* C22: between the calls of the test body, costmap_set_ is true and costmap_
\* holds a costmap a load has built, using_fake_costmap_ is true exactly when
\* the last load that returned was loadSimpleCostmap, using_fake_costmap_ false
\* implies map_set_, and costmap_server_running_ implies costmap_set_; a call
\* of loadDefaultMap that throws changes none of the four flags nor the costmap.
C22_SetupFlags ==
  /\ [](/\ costmap_set_
        /\ costmap_ \in Costmaps
        /\ (using_fake_costmap_ <=> last_load = "loadSimpleCostmap")
        /\ (~using_fake_costmap_ => map_set_)
        /\ (costmap_server_running_ => costmap_set_))
  /\ [][LoadThrowsStep =>
          UNCHANGED <<map_set_, costmap_set_, using_fake_costmap_,
                      costmap_server_running_, costmap_, last_load>>]_vars

\* a map was loaded, then a fake costmap, and then loadDefaultMap threw
C22_Witness ==
  /\ call.op = "loadDefaultMap"
  /\ call.threw
  /\ map_set_
  /\ using_fake_costmap_
  /\ costmap_ = TestCostmap("bounded")

(***************************************************************************)
(* Claims about the costmap service callback (SpecReload)                  *)
(***************************************************************************)
\* C23 as stated: the costmap service callback is never inside its read of
\* costmap_ while the test thread is inside a load that replaces costmap_, and
\* the Costmap object it reads is a complete one, the old or the new: never a
\* destroyed one, never one that was constructed and not yet given its cells.
C23_CallbackReadsCompleteCostmap ==
  /\ ~(cb.pc = "entered" /\ loading.pc # "idle")
  /\ cb.got \in {"none", "built"}

(***************************************************************************)
(* Claims about goal_handle_ of the fixture (SpecHarness)                  *)
(***************************************************************************)
\* C24: sendCommand returns true exactly when its goal was accepted, and then
\* goal_handle_ is the non-null handle of the goal that call submitted; when
\* it returns false because the server was not available or the send did not
\* complete, goal_handle_ is what it was before the call, never the handle of
\* the call's own goal; when it returns false because the goal was rejected,
\* goal_handle_ is null. While sendCommand waits for the answer, also once the
\* server has accepted the goal, goal_handle_ is still what it was before the
\* call; getOutcome does not touch goal_handle_.
C24_GoalHandleAfterSend ==
  /\ [](hpc = "sendCommand" => goal_handle_ # sending.id)
  /\ [](sendLog.cause # "none" =>
          /\ (sendLog.ret <=> sendLog.cause = "accepted")
          /\ (sendLog.cause = "accepted" =>
                /\ goal_handle_ # NoGoal
                /\ goal_handle_ = sendLog.id
                /\ results[goal_handle_] # "NONE")
          /\ (sendLog.cause \in {"unavailable", "incomplete"} =>
                /\ goal_handle_ = sendLog.before
                /\ (sendLog.cause = "incomplete" => goal_handle_ # sendLog.id))
          /\ (sendLog.cause = "rejected" => goal_handle_ = NoGoal))
  /\ [][sendLog' = sendLog => goal_handle_' = goal_handle_]_vars

\* a goal was accepted, and the send of a later one did not complete:
\* goal_handle_ still is the handle of the earlier goal
C24_Witness ==
  /\ sendLog.cause = "incomplete"
  /\ ~sendLog.ret
  /\ sendLog.before # NoGoal
  /\ goal_handle_ = sendLog.before
  /\ sendLog.id > goal_handle_

====
